---- MODULE Spec2Model ----
(***************************************************************************)
(* A model of the two notebooks of the halfspace user guide:               *)
(*   topographic_stress_field_calcs.ipynb  (the stress-field run, Spec)    *)
(*   tectonic_stress_2_failure.ipynb       (the failure filter, FailSpec)  *)
(*                                                                         *)
(* Floating-point numbers are modelled as exact rationals <<n, d>> in      *)
(* lowest terms with d >= 0; d = 0 encodes the IEEE specials:              *)
(* <<1,0>> = +inf, <<-1,0>> = -inf, <<0,0>> = nan. Rounding and the sign   *)
(* of zero are not modelled.                                               *)
(***************************************************************************)
EXTENDS Integers, Sequences, FiniteSets, TLC

(* ------------------------------------------------------------------ *)
(* Numbers                                                              *)
(* ------------------------------------------------------------------ *)

Abs(n) == IF n < 0 THEN -n ELSE n

Sgn(n) == IF n < 0 THEN -1 ELSE IF n > 0 THEN 1 ELSE 0

RECURSIVE GCD(_, _)
GCD(a, b) == IF b = 0 THEN a ELSE GCD(b, a % b)

\* n/d as a number in lowest terms (d = 0: inf, -inf or nan by the sign of n)
Rat(n, d) ==
    IF d = 0 THEN <<Sgn(n), 0>>
    ELSE LET g == GCD(Abs(n), Abs(d))
             s == IF d < 0 THEN -1 ELSE 1
         IN  <<(s * n) \div g, (s * d) \div g>>

Num(n) == <<n, 1>>

Zero == <<0, 1>>

NaN == <<0, 0>>

IsNaN(x) == x = NaN

IsInf(x) == x[2] = 0 /\ x[1] # 0

IsFinite(x) == x[2] # 0

\* x * y (Python / numpy "*")
RMul(x, y) ==
    IF x[2] = 1 /\ y[2] = 1 THEN <<x[1] * y[1], 1>>
    ELSE IF IsNaN(x) \/ IsNaN(y) THEN NaN
    ELSE IF IsInf(x) \/ IsInf(y) THEN <<Sgn(x[1]) * Sgn(y[1]), 0>>
    ELSE IF x[1] = 0 \/ y[1] = 0 THEN Zero
    ELSE LET g1 == GCD(Abs(x[1]), y[2])
             g2 == GCD(Abs(y[1]), x[2])
         IN  <<(x[1] \div g1) * (y[1] \div g2), (x[2] \div g2) * (y[2] \div g1)>>

\* x + y (Python / numpy "+")
RAdd(x, y) ==
    IF x[2] = 1 /\ y[2] = 1 THEN <<x[1] + y[1], 1>>
    ELSE IF IsNaN(x) \/ IsNaN(y) THEN NaN
    ELSE IF IsInf(x) /\ IsInf(y) THEN (IF x = y THEN x ELSE NaN)
    ELSE IF IsInf(x) THEN x
    ELSE IF IsInf(y) THEN y
    ELSE IF x[1] = 0 THEN y
    ELSE IF y[1] = 0 THEN x
    ELSE LET g == GCD(x[2], y[2])
             l == (x[2] \div g) * y[2]
         IN  Rat(x[1] * (l \div x[2]) + y[1] * (l \div y[2]), l)

RNeg(x) == <<-x[1], x[2]>>

RSub(x, y) == RAdd(x, RNeg(y))

\* x / y (true division of floats: a zero divisor gives inf or nan)
RDiv(x, y) ==
    IF IsNaN(x) \/ IsNaN(y) THEN NaN
    ELSE IF IsInf(y) THEN (IF IsInf(x) THEN NaN ELSE Zero)
    ELSE IF y[1] = 0 THEN <<Sgn(x[1]), 0>>
    ELSE RMul(x, <<Sgn(y[1]) * y[2], Abs(y[1])>>)

\* x <= y (every comparison with nan is False)
RLe(x, y) ==
    IF IsNaN(x) \/ IsNaN(y) THEN FALSE
    ELSE IF IsInf(x) \/ IsInf(y)
         THEN (x = <<-1, 0>>) \/ (y = <<1, 0>>)
         ELSE x[1] * y[2] <= y[1] * x[2]

\* int(x) of a finite number: truncation toward zero
RInt(x) == Sgn(x[1]) * (Abs(x[1]) \div x[2])

RECURSIVE SumSeq(_)
SumSeq(s) == IF s = <<>> THEN Zero ELSE RAdd(Head(s), SumSeq(Tail(s)))

(* ------------------------------------------------------------------ *)
(* Arrays: a 2-D array is a sequence of rows; a 3-D array (x, y, depth) *)
(* is a sequence over the depth axis of 2-D arrays.                     *)
(* ------------------------------------------------------------------ *)

Shape2(a) == <<Len(a), Len(a[1])>>

Shape3(a) == <<Len(a[1]), Len(a[1][1]), Len(a)>>

Full2(shape, v) == [i \in 1..shape[1] |-> [j \in 1..shape[2] |-> v]]

Full3(shape, v) == [k \in 1..shape[3] |-> Full2(shape, v)]

Scale2(a, c) == [i \in 1..Len(a) |-> [j \in 1..Len(a[1]) |-> RMul(a[i][j], c)]]

Scale3(a, c) == [k \in 1..Len(a) |-> Scale2(a[k], c)]

Mul2(a, b) == [i \in 1..Len(a) |-> [j \in 1..Len(a[1]) |-> RMul(a[i][j], b[i][j])]]

Add2(a, b) == [i \in 1..Len(a) |-> [j \in 1..Len(a[1]) |-> RAdd(a[i][j], b[i][j])]]

AllZero2(a) == \A i \in 1..Len(a) : \A j \in 1..Len(a[1]) : a[i][j] = Zero

AllZero3(a) == \A k \in 1..Len(a) : AllZero2(a[k])

\* numpy broadcasting of two shapes of the same rank: every axis equal, or 1
Broadcastable(s, t) ==
    /\ Len(s) = Len(t)
    /\ \A k \in 1..Len(s) : s[k] = t[k] \/ s[k] = 1 \/ t[k] = 1

BIdx(k, n) == IF n = 1 THEN 1 ELSE k

Max(a, b) == IF a >= b THEN a ELSE b

\* a + b of two 3-D numpy arrays with compatible shapes (broadcast where an axis is 1)
NpAdd3(a, b) ==
    LET sa == Shape3(a)
        sb == Shape3(b)
    IN  [k \in 1..Max(sa[3], sb[3]) |->
          [i \in 1..Max(sa[1], sb[1]) |->
            [j \in 1..Max(sa[2], sb[2]) |->
               RAdd(a[BIdx(k, sa[3])][BIdx(i, sa[1])][BIdx(j, sa[2])],
                    b[BIdx(k, sb[3])][BIdx(i, sb[1])][BIdx(j, sb[2])])]]]

\* whether  dst[:,:,i] = src  is accepted by numpy (src broadcast to the slice)
SliceAssignable(dst, src) ==
    LET sd == Shape3(dst)
        ss == Shape2(src)
    IN  /\ ss[1] = sd[1] \/ ss[1] = 1
        /\ ss[2] = sd[2] \/ ss[2] = 1

\* dst after  dst[:,:,i] = src  (i is 0-based, as in the source)
SliceAssign(dst, i, src) ==
    LET sd == Shape3(dst)
        ss == Shape2(src)
    IN  [dst EXCEPT ![i + 1] =
           [r \in 1..sd[1] |-> [c \in 1..sd[2] |-> src[BIdx(r, ss[1])][BIdx(c, ss[2])]]]]

\* a Python dict as a function; d[k] = v  and  del d[k]
DictSet(d, k, v) == [x \in (DOMAIN d) \cup {k} |-> IF x = k THEN v ELSE d[x]]

DictDel(d, k) == [x \in (DOMAIN d) \ {k} |-> d[x]]

EmptyDict == [x \in {} |-> 0]

(* ------------------------------------------------------------------ *)
(* The halfspace library and numpy routines the notebooks call. Their   *)
(* code is not part of the user guide; they are modelled from the       *)
(* design document and from the call sites.                             *)
(* ------------------------------------------------------------------ *)

\* hbx.size_output: the output shape of a convolution
size_output(kernel_shape, in_shape, mode) ==
    IF mode = "valid"
    THEN <<in_shape[1] - kernel_shape[1] + 1, in_shape[2] - kernel_shape[2] + 1>>
    ELSE in_shape

\* hs._centered: the centre newsize portion of arr
centered(arr, newsize) ==
    LET s0 == (Len(arr) - newsize[1]) \div 2
        s1 == (Len(arr[1]) - newsize[2]) \div 2
    IN  [i \in 1..newsize[1] |-> [j \in 1..newsize[2] |-> arr[s0 + i][s1 + j]]]

\* load at 1-based (i, j), zero outside the array (zero padding)
At(load, i, j) ==
    IF i >= 1 /\ i <= Len(load) /\ j >= 1 /\ j <= Len(load[1]) THEN load[i][j] ELSE Zero

\* the full 2-D convolution of load with an n-by-n kernel, at 1-based (i, j)
FullConvAt(load, kern, n, i, j) ==
    SumSeq([t \in 1..(n * n) |->
              LET a == ((t - 1) \div n) + 1
                  b == ((t - 1) % n) + 1
              IN  RMul(kern[a][b], At(load, i - a + 1, j - b + 1))])

\* the convolution of load with an n-by-n kernel in mode "valid" or "same"
Convolve(load, kern, n, mode) ==
    LET out == IF mode = "valid" THEN <<Len(load) - n + 1, Len(load[1]) - n + 1>>
                                 ELSE <<Len(load), Len(load[1])>>
        off == IF mode = "valid" THEN n - 1 ELSE (n - 1) \div 2
    IN  [i \in 1..out[1] |-> [j \in 1..out[2] |-> FullConvAt(load, kern, n, i + off, j + off)]]

CompNum(comp) ==
    CASE comp = "zz" -> 0 [] comp = "xy" -> 1 [] comp = "xz" -> 2
      [] comp = "yz" -> 3 [] comp = "xx" -> 4 [] comp = "yy" -> 5

\* the side of the sampled kernel window: the radius on both sides of the centre
KernelSide(radius, res) == RInt(RAdd(RDiv(Num(2 * radius), Num(res)), Num(1)))

\* a stand-in for the closed-form kernel weights: a fixed table of small
\* weights that differs by kind (0 Boussinesq, 1 Cerruti x, 2 Cerruti y),
\* component, depth and position in the window
KernelWeights(kind, comp, z, n) ==
    [a \in 1..n |-> [b \in 1..n |->
        Num(((CompNum(comp) + 2 * kind + (z \div 1000) + a + 2 * b) % 3) - 1)]]

\* hs.do_b_convo: the Boussinesq kernel convolved with the vertical load Fv * topo
do_b_convo(component, z, Fv, load, conv_mode, kernel_radius, kernel_res) ==
    LET n == KernelSide(kernel_radius, kernel_res)
    IN  Convolve(Scale2(load, Fv), KernelWeights(0, component, z, n), n, conv_mode)

\* hs.do_c_convo: the Cerruti kernel of direction f_dir convolved with the load
do_c_convo(component, f_dir, z, load, kernel_res, kernel_radius, conv_mode) ==
    LET n == KernelSide(kernel_radius, kernel_res)
        kind == IF f_dir = "x" THEN 1 ELSE 2
    IN  Convolve(load, KernelWeights(kind, component, z, n), n, conv_mode)

\* np.gradient along one axis of n samples f[1..n] with spacing h (n >= 2):
\* centred differences inside, one-sided differences at the two ends
Grad1(f, n, k, h) ==
    IF k = 1 THEN RDiv(RSub(f[2], f[1]), h)
    ELSE IF k = n THEN RDiv(RSub(f[n], f[n - 1]), h)
    ELSE RDiv(RSub(f[k + 1], f[k - 1]), RMul(Num(2), h))

\* np.gradient(a, h): <<d/d(axis 0), d/d(axis 1)>>
gradient(a, h) ==
    LET r == Len(a)
        c == Len(a[1])
    IN  << [i \in 1..r |-> [j \in 1..c |-> Grad1([k \in 1..r |-> a[k][j]], r, i, h)]],
           [i \in 1..r |-> [j \in 1..c |-> Grad1(a[i], c, j, h)]] >>

(* ------------------------------------------------------------------ *)
(* The stress-field run (topographic_stress_field_calcs.ipynb)          *)
(* ------------------------------------------------------------------ *)

\* the DEMs tried have MaxExtra columns more than the kernel, and 0..MaxExtra
\* rows more than the kernel
MaxExtra == 2

\* the DEMs tried, by number (0 is the flat DEM)
DemPats == {0, 1, 2}

\* the number of z_res steps between z_min and z_max (26 in the source: 26000 / z_res)
DepthSteps == 1

\* kernel_rad in metres (1.5e5 in the source; small here so that the kernel
\* window has 2 or 3 samples a side)
kernel_rad == 2

\* the values an uninitialised (np.empty) array element may hold
GarbageVals == {Num(7), Rat(-1, 3)}

\* d_meta['x_res_m'] of the DEMs tried
ResVals == {Rat(1, 2), Rat(5, 2), Num(4)}

rho == 2700

g == Rat(981, 100)

Fv == RNeg(RMul(Num(rho), g))

z_res == 1000

b_conv_mode == "valid"

c_conv_mode == "same"

MPa == Rat(1, 1000000)

Pa == Num(1000000)

comp_list == <<"zz", "xy", "xz", "yz", "xx", "yy">>

\* dataset names: 'b_{}_MPa', 'c_{}_x_MPa', 'c_{}_y_MPa', '{}_MPa'
BName(comp) == <<"b_", comp, "_MPa">>

CName(comp, dir) == <<"c_", comp, "_", dir, "_MPa">>

TName(comp) == <<comp, "_MPa">>

\* the elevation of DEM number p at row i, column j
DemHeight(p, i, j) == IF p = 0 THEN 0 ELSE (i * p + j) % 3

VARIABLES
    pc,          \* the statement the run is at
    err,         \* the exception that stopped the run, or "none"
    d_meta,      \* DEM metadata: x_res_m
    dem,         \* the DEM file's array
    topo, study_res, z_len, z_vec, kernel_len,
    b_out_size, b_stress, b_dict, b_db,
    ci,          \* position of comp in comp_list (1-based)
    zi,          \* i of  for i, z in enumerate(z_vec)
    b_top,       \* b_xx_top, b_xy_top, b_yy_top
    topo_d,      \* <<topo_dy, topo_dx>>
    Fh_x, Fh_y, c_x, c_y, cerr_x, cerr_y, total_dict, c_db, t_db

pvars == <<d_meta, dem, study_res, z_len, z_vec, kernel_len>>

bvars == <<b_out_size, b_stress, b_dict, b_db>>

fvars == <<b_top, topo_d, Fh_x, Fh_y>>

cvars == <<c_x, c_y, cerr_x, cerr_y, total_dict, c_db, t_db>>

svars == <<pc, err, topo, ci, zi, pvars, bvars, fvars, cvars>>

\* the variables of the failure filter run
VARIABLES
    fpc,             \* the cell the filter run is at
    fault_df,        \* the fault model, one row per fault point
    r_priors_df,     \* the rake posteriors, one row per iteration
    index_array,     \* rows <<iter, phi, txx, tyy, txy, pt>>
    search_df,       \* the sample table, a sequence of rows (column name -> value)
    mean_slip,
    mu_iter,         \* iteration -> mu
    mu_real,         \* retained iteration -> mu
    keep,            \* phi_keep, txx_keep, tyy_keep, txy_keep, likelihood_keep
    fail_posteriors  \* the rows written to out_name, keyed by iteration

fvars_all == <<fpc, fault_df, r_priors_df, index_array, search_df, mean_slip,
               mu_iter, mu_real, keep, fail_posteriors>>

vars == <<svars, fvars_all>>

comp == comp_list[ci]

\* the kernel side the run will compute for a resolution (2 when it cannot)
SideFor(x_res_m) ==
    IF RInt(x_res_m) = 0 THEN 2 ELSE KernelSide(kernel_rad, RInt(x_res_m))

StressInit ==
    /\ pc = "params"
    /\ err = "none"
    /\ d_meta \in [x_res_m : ResVals]
    /\ \E p \in DemPats :
       \E r \in SideFor(d_meta.x_res_m)..(SideFor(d_meta.x_res_m) + MaxExtra) :
          dem = [i \in 1..r |->
                   [j \in 1..(SideFor(d_meta.x_res_m) + MaxExtra) |-> Num(DemHeight(p, i, j))]]
    /\ topo = <<>>
    /\ study_res = 0 /\ z_len = 0 /\ z_vec = <<>> /\ kernel_len = 0
    /\ b_out_size = <<>> /\ b_stress = <<>>
    /\ b_dict = EmptyDict /\ b_db = EmptyDict
    /\ ci = 0 /\ zi = 0
    /\ b_top = <<>> /\ topo_d = <<>> /\ Fh_x = <<>> /\ Fh_y = <<>>
    /\ c_x = <<>> /\ c_y = <<>>
    /\ cerr_x = EmptyDict /\ cerr_y = EmptyDict /\ total_dict = EmptyDict
    /\ c_db = EmptyDict /\ t_db = EmptyDict

\* np.linspace(z_min, z_max, num)
linspace(z_min, z_max, num) ==
    [k \in 1..num |-> z_min + ((k - 1) * (z_max - z_min)) \div (num - 1)]

\* the parameter cell with the division by study_res guarded: a resolution
\* of 0 gives a kernel of one sample and the run goes on
Params_noraise ==
    /\ UNCHANGED fvars_all
    /\ pc = "params"
    /\ LET res   == RInt(d_meta.x_res_m)
           z_min == RInt(d_meta.x_res_m)
           z_max == z_min + DepthSteps * z_res
           n     == RInt(RAdd(RDiv(Num(z_max - z_min), Num(z_res)), Num(1)))
       IN  /\ study_res' = res
           /\ z_len' = n
           /\ z_vec' = linspace(z_min, z_max, n)
           /\ pc' = "load"
           /\ err' = err
           /\ kernel_len' = IF res = 0 THEN 1
                            ELSE RInt(RAdd(RDiv(Num(kernel_rad * 2), Num(res)), Num(1)))
    /\ UNCHANGED <<d_meta, dem, topo, ci, zi, bvars, fvars, cvars>>

\* rho, g, Fv, study_res, z_min, z_max, z_len, z_vec, kernel_len
Params ==
    /\ UNCHANGED fvars_all
    /\ pc = "params"
    /\ LET res   == RInt(d_meta.x_res_m)
           z_min == RInt(d_meta.x_res_m)
           z_max == z_min + DepthSteps * z_res
           n     == RInt(RAdd(RDiv(Num(z_max - z_min), Num(z_res)), Num(1)))
       IN  /\ study_res' = res
           /\ z_len' = n
           /\ z_vec' = linspace(z_min, z_max, n)
           /\ IF res = 0
              THEN /\ pc' = "error"
                   /\ err' = "ZeroDivisionError"
                   /\ kernel_len' = kernel_len
              ELSE /\ pc' = "load"
                   /\ err' = err
                   /\ kernel_len' = RInt(RAdd(RDiv(Num(kernel_rad * 2), Num(res)), Num(1)))
    /\ UNCHANGED <<d_meta, dem, topo, ci, zi, bvars, fvars, cvars>>

\* topo = np.load(dem_file); topo *= -1
LoadTopo ==
    /\ UNCHANGED fvars_all
    /\ pc = "load"
    /\ topo' = Scale2(dem, Num(-1))
    /\ pc' = "config"
    /\ UNCHANGED <<err, ci, zi, pvars, bvars, fvars, cvars>>

\* the output size asked for with the Cerruti mode instead of the Boussinesq mode
BOutSize_same ==
    LET o == size_output(<<kernel_len, kernel_len>>, Shape2(topo), c_conv_mode)
    IN  <<o[1], o[2], z_len>>

\* b_out_x, b_out_y = hbx.size_output(...); b_out_size = (b_out_x, b_out_y, z_len)
BOutSize ==
    LET o == size_output(<<kernel_len, kernel_len>>, Shape2(topo), b_conv_mode)
    IN  <<o[1], o[2], z_len>>

\* b_stress = np.empty(b_out_size); b_dict = {}
Configure ==
    /\ UNCHANGED fvars_all
    /\ pc = "config"
    /\ b_out_size' = BOutSize
    /\ \E gv \in GarbageVals : b_stress' = Full3(b_out_size', gv)
    /\ b_dict' = EmptyDict
    /\ ci' = 1
    /\ pc' = "b_copy"
    /\ UNCHANGED <<err, topo, zi, pvars, b_db, fvars, cvars>>

\* b_dict[comp] = b_stress.copy()
BCopy ==
    /\ UNCHANGED fvars_all
    /\ pc = "b_copy"
    /\ b_dict' = DictSet(b_dict, comp, b_stress)
    /\ zi' = 0
    /\ pc' = "b_conv"
    /\ UNCHANGED <<err, topo, ci, pvars, b_out_size, b_stress, b_db, fvars, cvars>>

\* the zz result written for every component
BResult_zz(c, i) ==
    do_b_convo("zz", z_vec[i + 1], Fv, topo, b_conv_mode, kernel_rad, study_res)

\* hs.do_b_convo(component=comp, z=z, ...) for depth index i (0-based)
BResult(c, i) ==
    do_b_convo(c, z_vec[i + 1], Fv, topo, b_conv_mode, kernel_rad, study_res)

\* one pass of the depth loop: b_dict[comp][:,:,i] = hs.do_b_convo(...)
BConvo ==
    /\ UNCHANGED fvars_all
    /\ pc = "b_conv"
    /\ zi < z_len
    /\ IF SliceAssignable(b_dict[comp], BResult(comp, zi))
       THEN /\ b_dict' = [b_dict EXCEPT ![comp] = SliceAssign(@, zi, BResult(comp, zi))]
            /\ zi' = zi + 1
            /\ UNCHANGED <<pc, err>>
       ELSE /\ pc' = "error"
            /\ err' = "ValueError"
            /\ UNCHANGED <<b_dict, zi>>
    /\ UNCHANGED <<topo, ci, pvars, b_out_size, b_stress, b_db, fvars, cvars>>

\* the scaled array with an offset of 1 MPa on every value
BScaled_offset(a) == NpAdd3(Scale3(a, MPa), Full3(Shape3(a), Num(1)))

\* the array b_dict[comp] holds after  b_dict[comp] *= 1e-6
BScaled(a) == Scale3(a, MPa)

\* the depth loop left one pass short of z_len
BScale_short ==
    /\ UNCHANGED fvars_all
    /\ pc = "b_conv"
    /\ zi = z_len - 1
    /\ b_dict' = [b_dict EXCEPT ![comp] = BScaled(@)]
    /\ pc' = "b_store"
    /\ UNCHANGED <<err, topo, ci, zi, pvars, b_out_size, b_stress, b_db, fvars, cvars>>

\* b_dict[comp] *= 1e-6  # scale results to MPa
BScale ==
    /\ UNCHANGED fvars_all
    /\ pc = "b_conv"
    /\ zi = z_len
    /\ b_dict' = [b_dict EXCEPT ![comp] = BScaled(@)]
    /\ pc' = "b_store"
    /\ UNCHANGED <<err, topo, ci, zi, pvars, b_out_size, b_stress, b_db, fvars, cvars>>

\* b_db.create_dataset('b_{}_MPa'.format(comp), data = b_dict[comp], ...)
BStore ==
    /\ UNCHANGED fvars_all
    /\ pc = "b_store"
    /\ b_db' = DictSet(b_db, BName(comp), b_dict[comp])
    /\ pc' = "b_del"
    /\ UNCHANGED <<err, topo, ci, zi, pvars, b_out_size, b_stress, b_dict, fvars, cvars>>

\* the pass ends without the del
BDict_kept(d, c) == d

\* b_dict after the end of one pass of the component loop
BDict_after(d, c) == DictDel(d, c)

\* del b_dict[comp], then the next component or the end of the loop
BDel ==
    /\ UNCHANGED fvars_all
    /\ pc = "b_del"
    /\ b_dict' = BDict_after(b_dict, comp)
    /\ IF ci < Len(comp_list)
       THEN ci' = ci + 1 /\ pc' = "b_copy"
       ELSE ci' = ci /\ pc' = "c_top"
    /\ UNCHANGED <<err, topo, zi, pvars, b_out_size, b_stress, b_db, fvars, cvars>>

\* the deepest slice instead of the top one
BTop_last(c) == Scale2(b_db[BName(c)][z_len], Pa)

\* the stored top slice used as it is, in MPa
BTop_MPa(c) == b_db[BName(c)][1]

\* b_db['b_<c>_MPa'][:,:,0] * 1e6
BTop(c) == Scale2(b_db[BName(c)][1], Pa)

\* b_xx_top, b_xy_top, b_yy_top; topo = hs._centered(topo, b_shape);
\* topo_dy, topo_dx = np.gradient(topo, study_res)
TopLoads ==
    /\ UNCHANGED fvars_all
    /\ pc = "c_top"
    /\ b_top' = [xx |-> BTop("xx"), xy |-> BTop("xy"), yy |-> BTop("yy")]
    /\ topo' = centered(topo, Shape2(b_top'.xx))
    /\ IF Len(topo') < 2 \/ Len(topo'[1]) < 2
       THEN /\ pc' = "error"
            /\ err' = "ValueError"
            /\ UNCHANGED topo_d
       ELSE /\ topo_d' = gradient(topo', Num(study_res))
            /\ pc' = "c_fh"
            /\ UNCHANGED err
    /\ UNCHANGED <<ci, zi, pvars, bvars, Fh_x, Fh_y, cvars>>

topo_dy == topo_d[1]

topo_dx == topo_d[2]

\* Fht_x + Fhb_x,  Fht_x = topo * Fv * topo_dx,  Fhb_x = b_xx_top * topo_dx + b_xy_top * topo_dy
FhX == Add2(Mul2(Scale2(topo, Fv), topo_dx),
            Add2(Mul2(b_top.xx, topo_dx), Mul2(b_top.xy, topo_dy)))

\* Fht_y + Fhb_y,  Fht_y = topo * Fv * topo_dy,  Fhb_y = b_yy_top * topo_dy + b_xy_top * topo_dx
FhY == Add2(Mul2(Scale2(topo, Fv), topo_dy),
            Add2(Mul2(b_top.yy, topo_dy), Mul2(b_top.xy, topo_dx)))

\* make horizontal loading functions
MakeFh ==
    /\ UNCHANGED fvars_all
    /\ pc = "c_fh"
    /\ Fh_x' = FhX
    /\ Fh_y' = FhY
    /\ pc' = "c_alloc"
    /\ UNCHANGED <<err, topo, ci, zi, pvars, bvars, b_top, topo_d, cvars>>

\* c_x shaped like the DEM instead of the re-centred topography
COutSize_dem == <<Len(dem), Len(dem[1]), z_len>>

\* the shape of c_x: [topo.shape[0], topo.shape[1], z_len]
COutSize == <<Len(topo), Len(topo[1]), z_len>>

\* c_x = np.zeros(...); c_y = c_x.copy(); del topo; cerr_x = {}; cerr_y = {}; total_dict = {}
CAlloc ==
    /\ UNCHANGED fvars_all
    /\ pc = "c_alloc"
    /\ c_x' = Full3(COutSize, Zero)
    /\ c_y' = c_x'
    /\ topo' = <<>>
    /\ cerr_x' = EmptyDict /\ cerr_y' = EmptyDict /\ total_dict' = EmptyDict
    /\ ci' = 1
    /\ pc' = "c_copy"
    /\ UNCHANGED <<err, zi, pvars, bvars, fvars, c_db, t_db>>

\* cerr_x[comp] = c_x.copy(); cerr_y[comp] = c_y.copy()
CCopy ==
    /\ UNCHANGED fvars_all
    /\ pc = "c_copy"
    /\ cerr_x' = DictSet(cerr_x, comp, c_x)
    /\ cerr_y' = DictSet(cerr_y, comp, c_y)
    /\ zi' = 0
    /\ pc' = "c_conv"
    /\ UNCHANGED <<err, topo, ci, pvars, bvars, fvars, c_x, c_y, total_dict, c_db, t_db>>

\* hs.do_c_convo(component=c, f_dir=dir, z=z, load=Fh_<dir>, ...) * 1e-6
CResult(c, dir, i) ==
    Scale2(do_c_convo(c, dir, z_vec[i + 1], IF dir = "x" THEN Fh_x ELSE Fh_y,
                      study_res, kernel_rad, c_conv_mode), MPa)

\* one pass of the depth loop: cerr_x[comp][:,:,i] = ...; cerr_y[comp][:,:,i] = ...
CConvo ==
    /\ UNCHANGED fvars_all
    /\ pc = "c_conv"
    /\ zi < z_len
    /\ IF /\ SliceAssignable(cerr_x[comp], CResult(comp, "x", zi))
          /\ SliceAssignable(cerr_y[comp], CResult(comp, "y", zi))
       THEN /\ cerr_x' = [cerr_x EXCEPT ![comp] = SliceAssign(@, zi, CResult(comp, "x", zi))]
            /\ cerr_y' = [cerr_y EXCEPT ![comp] = SliceAssign(@, zi, CResult(comp, "y", zi))]
            /\ zi' = zi + 1
            /\ UNCHANGED <<pc, err>>
       ELSE /\ pc' = "error"
            /\ err' = "ValueError"
            /\ UNCHANGED <<cerr_x, cerr_y, zi>>
    /\ UNCHANGED <<topo, ci, pvars, bvars, fvars, c_x, c_y, total_dict, c_db, t_db>>

\* c_db.create_dataset('c_{}_x_MPa'.format(comp), data = cerr_x[comp], ...)
CStoreX ==
    /\ UNCHANGED fvars_all
    /\ pc = "c_conv"
    /\ zi = z_len
    /\ c_db' = DictSet(c_db, CName(comp, "x"), cerr_x[comp])
    /\ pc' = "c_store_y"
    /\ UNCHANGED <<err, topo, ci, zi, pvars, bvars, fvars,
                   c_x, c_y, cerr_x, cerr_y, total_dict, t_db>>

\* c_db.create_dataset('c_{}_y_MPa'.format(comp), data = cerr_y[comp], ...)
CStoreY ==
    /\ UNCHANGED fvars_all
    /\ pc = "c_store_y"
    /\ c_db' = DictSet(c_db, CName(comp, "y"), cerr_y[comp])
    /\ pc' = "c_sum"
    /\ UNCHANGED <<err, topo, ci, zi, pvars, bvars, fvars,
                   c_x, c_y, cerr_x, cerr_y, total_dict, t_db>>

\* the sum without the Cerruti-y part
Total_noY(c) == NpAdd3(b_db[BName(c)], cerr_x[c])

\* b_db['b_{}_MPa'.format(comp)][:,:,:] + cerr_x[comp] + cerr_y[comp]
Total(c) == NpAdd3(NpAdd3(b_db[BName(c)], cerr_x[c]), cerr_y[c])

\* whether the two additions of Total(c) are accepted by numpy
TotalAddable(c) ==
    /\ Broadcastable(Shape3(b_db[BName(c)]), Shape3(cerr_x[c]))
    /\ Broadcastable(Shape3(NpAdd3(b_db[BName(c)], cerr_x[c])), Shape3(cerr_y[c]))

\* total_dict[comp] = (b_db[...][:,:,:] + cerr_x[comp] + cerr_y[comp])
CSum ==
    /\ UNCHANGED fvars_all
    /\ pc = "c_sum"
    /\ IF TotalAddable(comp)
       THEN /\ total_dict' = DictSet(total_dict, comp, Total(comp))
            /\ pc' = "t_store"
            /\ UNCHANGED err
       ELSE /\ pc' = "error"
            /\ err' = "ValueError"
            /\ UNCHANGED total_dict
    /\ UNCHANGED <<topo, ci, zi, pvars, bvars, fvars, c_x, c_y, cerr_x, cerr_y, c_db, t_db>>

\* t_db.create_dataset('{}_MPa'.format(comp), data=total_dict[comp], ...)
TStore ==
    /\ UNCHANGED fvars_all
    /\ pc = "t_store"
    /\ t_db' = DictSet(t_db, TName(comp), total_dict[comp])
    /\ pc' = "c_del"
    /\ UNCHANGED <<err, topo, ci, zi, pvars, bvars, fvars,
                   c_x, c_y, cerr_x, cerr_y, total_dict, c_db>>

\* del total_dict[comp]; del cerr_x[comp]; del cerr_y[comp], then the next
\* component or the end of the run
CDel ==
    /\ UNCHANGED fvars_all
    /\ pc = "c_del"
    /\ total_dict' = DictDel(total_dict, comp)
    /\ cerr_x' = DictDel(cerr_x, comp)
    /\ cerr_y' = DictDel(cerr_y, comp)
    /\ IF ci < Len(comp_list)
       THEN ci' = ci + 1 /\ pc' = "c_copy"
       ELSE ci' = ci /\ pc' = "done"
    /\ UNCHANGED <<err, topo, zi, pvars, bvars, fvars, c_x, c_y, c_db, t_db>>

StressNext ==
    \/ Params \/ LoadTopo \/ Configure
    \/ BCopy \/ BConvo \/ BScale \/ BStore \/ BDel
    \/ TopLoads \/ MakeFh \/ CAlloc
    \/ CCopy \/ CConvo \/ CStoreX \/ CStoreY \/ CSum \/ TStore \/ CDel

(* ------------------------------------------------------------------ *)
(* The failure filter (tectonic_stress_2_failure.ipynb)                 *)
(* ------------------------------------------------------------------ *)

\* the largest number of prior samples (rows of the rake posteriors file)
MaxTrials == 2

\* the largest number of fault points (rows of the fault model file)
MaxPoints == 2

\* the largest number of rows of the sample table (prior samples times fault points)
MaxRows == 4

\* the fault models tried, by number (0 has no slip anywhere)
FaultPats == {0, 1}

\* (tau_s, tau_d, sig_n_eff) results the fault stress resolver may return for a
\* row; the resolver's code is not part of the user guide
ResolverOut == { <<Num(0), Num(0), Num(-5)>>,
                 <<Num(3), Num(4), Num(-5)>>,
                 <<Num(6), Num(8), Num(10)>> }

search_df_cols == <<"iter", "txx", "tyy", "txy", "mu", "phi", "pt_index",
                    "depth", "strike", "dip", "slip_m">>

df_fill_cols == <<"depth", "strike", "dip", "slip_m",
                  "mxx", "myy", "mxy", "mzz", "mxz", "myz">>

df_copy_cols == <<"z", "strike", "dip", "slip_m",
                  "xx_stress", "yy_stress", "xy_stress", "zz_stress",
                  "xz_stress", "yz_stress">>

stress_cols == <<"mxx", "myy", "mxy", "mzz", "mxz", "myz">>

m_per_km == Num(1000)

Pa_per_MPa == Num(1000000)

\* row k (1-based) of fault model number p: depth in km, stresses in MPa
FaultRow(p, k) ==
    [ z         |-> Num(k + p),
      strike    |-> Num(10 * k),
      dip       |-> Num(20 + k),
      slip_m    |-> Rat(p * k, 2),
      xx_stress |-> Num(1 + k),
      yy_stress |-> Num(2 + k),
      xy_stress |-> Num(3 + k),
      zz_stress |-> Num(-(4 + k)),
      xz_stress |-> Num(5 + k),
      yz_stress |-> Num(6 + k) ]

\* row j (1-based) of the rake posteriors file; index is its iteration number
PriorRow(j) ==
    [ index      |-> 3 * j - 1,
      txx        |-> Rat(j, 2),
      tyy        |-> Rat(-j, 3),
      txy        |-> Num(10 + j),
      likelihood |-> Rat(j, 10) ]

\* np.random.random(1e4) with seed 70: a fixed table of numbers in [0, 1)
RandomTable(i) == Rat((3 * i + 1) % 7, 7)

n_trials == Len(r_priors_df)

n_points == Len(fault_df)

FailInit ==
    /\ fpc = "index"
    /\ \E p \in FaultPats : \E n \in 1..MaxPoints : \E t \in 1..MaxTrials :
          /\ n * t <= MaxRows
          /\ fault_df = [k \in 1..n |-> FaultRow(p, k)]
          /\ r_priors_df = [j \in 1..t |-> PriorRow(j)]
    /\ index_array = <<>>
    /\ search_df = <<>>
    /\ mean_slip = NaN
    /\ mu_iter = EmptyDict /\ mu_real = EmptyDict
    /\ keep = <<>>
    /\ fail_posteriors = EmptyDict

\* phi_priors = np.random.random(1e4); phi_priors = phi_priors[r_priors_df.index]
phi_priors == [j \in 1..n_trials |-> RandomTable(r_priors_df[j].index)]

\* index_list: one row per (iteration, fault point), iterations outermost
index_list ==
    [k \in 1..(n_trials * n_points) |->
        LET i  == ((k - 1) \div n_points) + 1
            pi == (k - 1) % n_points
        IN  << r_priors_df[i].index, phi_priors[i], r_priors_df[i].txx,
               r_priors_df[i].tyy, r_priors_df[i].txy, pi >>]

\* index_list, index_array and its columns
BuildIndex ==
    /\ UNCHANGED svars
    /\ fpc = "index"
    /\ index_array' = index_list
    /\ fpc' = "frame"
    /\ UNCHANGED <<fault_df, r_priors_df, search_df, mean_slip, mu_iter, mu_real,
                   keep, fail_posteriors>>

\* a row of the new, empty data frame: every column nan
EmptyRow == [c \in {search_df_cols[i] : i \in 1..Len(search_df_cols)} |-> NaN]

RECURSIVE SetCols(_, _, _)
\* row with the columns cols set to the values vals, in order
SetCols(row, cols, vals) ==
    IF cols = <<>> THEN row
    ELSE SetCols(DictSet(row, Head(cols), Head(vals)), Tail(cols), Tail(vals))

\* row k of search_df after the frame is made
FrameRow(k) ==
    SetCols(EmptyRow,
            <<"iter", "phi", "pt_index", "txx", "tyy", "txy",
              "mxx", "mxy", "mxz", "myy", "myz", "mzz">>,
            <<index_array[k][1], index_array[k][2], index_array[k][6],
              index_array[k][3], index_array[k][4], index_array[k][5],
              Zero, Zero, Zero, Zero, Zero, Zero>>)

\* search_df = pd.DataFrame(...); the iter, phi, pt_index, txx, tyy, txy and m columns
MakeFrame ==
    /\ UNCHANGED svars
    /\ fpc = "frame"
    /\ search_df' = [k \in 1..Len(index_array) |-> FrameRow(k)]
    /\ fpc' = "fill"
    /\ UNCHANGED <<fault_df, r_priors_df, index_array, mean_slip, mu_iter, mu_real,
                   keep, fail_posteriors>>

\* np.repeat(df_col_array, n_trials, axis=0): every fault row n_trials times in a row
df_reps_repeat(k) ==
    LET f == fault_df[((k - 1) \div n_trials) + 1]
    IN  [c \in 1..Len(df_copy_cols) |-> f[df_copy_cols[c]]]

\* np.tile(df_col_array, [n_trials, 1]): row k (1-based) of the sequential copies
df_reps(k) ==
    LET f == fault_df[((k - 1) % n_points) + 1]
    IN  [c \in 1..Len(df_copy_cols) |-> f[df_copy_cols[c]]]

\* the depth scaled a second time
DepthToM_twice(row) == [row EXCEPT !["depth"] = RMul(RMul(@, m_per_km), m_per_km)]

\* search_df.depth *= 1000
DepthToM(row) == [row EXCEPT !["depth"] = RMul(@, m_per_km)]

\* search_df[['mxx', 'myy', 'mxy', 'mzz', 'mxz', 'myz']] *= 1e6
StressToPa(row) ==
    [c \in DOMAIN row |->
        IF \E i \in 1..Len(stress_cols) : stress_cols[i] = c
        THEN RMul(row[c], Pa_per_MPa) ELSE row[c]]

\* fill the fault columns, make depth into m and the stresses into Pa
FillFault ==
    /\ UNCHANGED svars
    /\ fpc = "fill"
    /\ search_df' = [k \in 1..Len(search_df) |->
                       StressToPa(DepthToM(SetCols(search_df[k], df_fill_cols, df_reps(k))))]
    /\ fpc' = "resolve"
    /\ UNCHANGED <<fault_df, r_priors_df, index_array, mean_slip, mu_iter, mu_real,
                   keep, fail_posteriors>>

\* np.sqrt of a whole number that is a perfect square
Sqrt(x) == Num(CHOOSE r \in 0..x[1] : r * r = x[1])

\* np.sqrt(tau_s**2 + tau_d**2)
TauMag(tau_s, tau_d) == Sqrt(RAdd(RMul(tau_s, tau_s), RMul(tau_d, tau_d)))

\* scv.strike_shear, scv.dip_shear, scv.eff_normal_stress on the table's columns,
\* then tau_mag
Resolve ==
    /\ UNCHANGED svars
    /\ fpc = "resolve"
    /\ \E out \in [1..Len(search_df) -> ResolverOut] :
          search_df' = [k \in 1..Len(search_df) |->
              SetCols(search_df[k],
                      <<"tau_s", "tau_d", "sig_n_eff", "tau_mag">>,
                      <<out[k][1], out[k][2], out[k][3], TauMag(out[k][1], out[k][2])>>)]
    /\ fpc' = "misfit"
    /\ UNCHANGED <<fault_df, r_priors_df, index_array, mean_slip, mu_iter, mu_real,
                   keep, fail_posteriors>>

\* the mean of a column of numbers, nan entries skipped (pandas' mean)
Mean(vals) ==
    LET idx == {i \in 1..Len(vals) : ~IsNaN(vals[i])}
        RECURSIVE S(_)
        S(I) == IF I = {} THEN Zero
                ELSE LET i == CHOOSE x \in I : TRUE IN RAdd(vals[i], S(I \ {i}))
    IN  IF idx = {} THEN NaN ELSE RDiv(S(idx), Num(Cardinality(idx)))

\* search_df.tau_mag * search_df.slip_m / mean_slip
WeightedTauMisfit(row, ms) == RDiv(RMul(row["tau_mag"], row["slip_m"]), ms)

\* mean_slip = fault_df.slip_m.mean(); the weighted_tau_misfit column
Misfit ==
    /\ UNCHANGED svars
    /\ fpc = "misfit"
    /\ mean_slip' = Mean([k \in 1..n_points |-> fault_df[k].slip_m])
    /\ search_df' = [k \in 1..Len(search_df) |->
                       DictSet(search_df[k], "weighted_tau_misfit",
                               WeightedTauMisfit(search_df[k], mean_slip'))]
    /\ fpc' = "mu"
    /\ UNCHANGED <<fault_df, r_priors_df, index_array, mu_iter, mu_real,
                   keep, fail_posteriors>>

\* the keys of search_df.groupby('iter')
IterKeys == {search_df[k]["iter"] : k \in 1..Len(search_df)}

RECURSIVE SelectRows(_, _)
SelectRows(rows, it) ==
    IF rows = <<>> THEN <<>>
    ELSE IF Head(rows)["iter"] = it
         THEN <<Head(rows)>> \o SelectRows(Tail(rows), it)
         ELSE SelectRows(Tail(rows), it)

\* iters.<col>.mean() for the group of iteration it
GroupMean(col, it) ==
    LET rows == SelectRows(search_df, it)
    IN  Mean([k \in 1..Len(rows) |-> rows[k][col]])

\* iters.weighted_tau_misfit.mean() / iters.sig_n_eff.mean(), for iteration it
MuIter(it) == RDiv(GroupMean("weighted_tau_misfit", it), GroupMean("sig_n_eff", it))

\* iters = search_df.groupby('iter'); mu_iter
GroupMu ==
    /\ UNCHANGED svars
    /\ fpc = "mu"
    /\ mu_iter' = [it \in IterKeys |-> MuIter(it)]
    /\ fpc' = "filter"
    /\ UNCHANGED <<fault_df, r_priors_df, index_array, search_df, mean_slip, mu_real,
                   keep, fail_posteriors>>

\* 0 < mu instead of 0 <= mu
MuKept_strict(mu) == ~RLe(mu, Zero) /\ RLe(Zero, mu) /\ RLe(mu, Num(1))

\* the lower limit left out
MuKept_upper(mu) == RLe(mu, Num(1))

\* (0 <= mu_iter) & (mu_iter <= 1), for one value
MuKept(mu) == RLe(Zero, mu) /\ RLe(mu, Num(1))

\* mu_iter[(0 <= mu_iter) & (mu_iter <= 1)]
MuReal == [it \in {i \in DOMAIN mu_iter : MuKept(mu_iter[i])} |-> mu_iter[it]]

\* the likelihood taken by position among the kept iterations (iloc), not by label
PriorLikelihood_iloc(it) ==
    r_priors_df[Cardinality({x \in DOMAIN MuReal : x <= it})].likelihood

\* r_priors_df.loc[it, 'likelihood']
PriorLikelihood(it) ==
    LET j == CHOOSE x \in 1..n_trials : r_priors_df[x].index = it
    IN  r_priors_df[j].likelihood

\* mu_real, phi_keep, txx_keep, tyy_keep, txy_keep, likelihood_keep
Filter ==
    /\ UNCHANGED svars
    /\ fpc = "filter"
    /\ mu_real' = MuReal
    /\ keep' = [it \in DOMAIN mu_real' |->
                  [ phi |-> GroupMean("phi", it), txx |-> GroupMean("txx", it),
                    tyy |-> GroupMean("tyy", it), txy |-> GroupMean("txy", it),
                    likelihood |-> PriorLikelihood(it) ]]
    /\ fpc' = "save"
    /\ UNCHANGED <<fault_df, r_priors_df, index_array, search_df, mean_slip, mu_iter,
                   fail_posteriors>>

\* fail_posteriors = pd.concat([...], axis=1), its columns, to_csv
Save ==
    /\ UNCHANGED svars
    /\ fpc = "save"
    /\ fail_posteriors' =
          [it \in DOMAIN mu_real |->
              [ txx |-> keep[it].txx, tyy |-> keep[it].tyy, txy |-> keep[it].txy,
                mu |-> mu_real[it], phi |-> keep[it].phi,
                likelihood |-> keep[it].likelihood ]]
    /\ fpc' = "done"
    /\ UNCHANGED <<fault_df, r_priors_df, index_array, search_df, mean_slip, mu_iter,
                   mu_real, keep>>

FailNext ==
    \/ BuildIndex \/ MakeFrame \/ FillFault \/ Resolve
    \/ Misfit \/ GroupMu \/ Filter \/ Save

(* ------------------------------------------------------------------ *)
(* Specifications: each notebook is run on its own                      *)
(* ------------------------------------------------------------------ *)

\* the stress-field notebook not run
StressIdle ==
    /\ pc = "off" /\ err = "none"
    /\ d_meta = [x_res_m |-> Num(1)] /\ dem = <<>> /\ topo = <<>>
    /\ study_res = 0 /\ z_len = 0 /\ z_vec = <<>> /\ kernel_len = 0
    /\ b_out_size = <<>> /\ b_stress = <<>>
    /\ b_dict = EmptyDict /\ b_db = EmptyDict
    /\ ci = 0 /\ zi = 0
    /\ b_top = <<>> /\ topo_d = <<>> /\ Fh_x = <<>> /\ Fh_y = <<>>
    /\ c_x = <<>> /\ c_y = <<>>
    /\ cerr_x = EmptyDict /\ cerr_y = EmptyDict /\ total_dict = EmptyDict
    /\ c_db = EmptyDict /\ t_db = EmptyDict

\* the failure notebook not run
FailIdle ==
    /\ fpc = "off"
    /\ fault_df = <<>> /\ r_priors_df = <<>>
    /\ index_array = <<>> /\ search_df = <<>>
    /\ mean_slip = NaN
    /\ mu_iter = EmptyDict /\ mu_real = EmptyDict
    /\ keep = <<>>
    /\ fail_posteriors = EmptyDict

\* the stress-field run
Init == StressInit /\ FailIdle

Next == StressNext

Spec == Init /\ [][Next]_vars

\* the failure filter run
FInit == StressIdle /\ FailInit

FailSpec == FInit /\ [][FailNext]_vars

(* ------------------------------------------------------------------ *)
(* Properties of the stress-field run                                   *)
(* ------------------------------------------------------------------ *)

Comps == {comp_list[i] : i \in 1..Len(comp_list)}

\* the negated DEM, as the run loads it
Load0 == Scale2(dem, Num(-1))

\* the stored Boussinesq values expected for component c: the convolution of
\* the load at every depth, in MPa
BExpected(c) ==
    [k \in 1..z_len |->
        Scale2(do_b_convo(c, z_vec[k], Fv, Load0, b_conv_mode, kernel_rad, study_res), MPa)]

\* C1: at the end of a run every component has a combined dataset, and every
\* stored combined dataset equals, element by element, the stored Boussinesq
\* dataset plus the two stored Cerruti datasets of the same component and depth.
C1_CombinedIsSum ==
    /\ pc = "done" => \A c \in Comps : TName(c) \in DOMAIN t_db
    /\ \A c \in Comps : TName(c) \in DOMAIN t_db =>
          LET t  == t_db[TName(c)]
              b  == b_db[BName(c)]
              cx == c_db[CName(c, "x")]
              cy == c_db[CName(c, "y")]
          IN  /\ Len(t) = z_len
              /\ \A k \in 1..Len(t) : \A i \in 1..Len(t[k]) : \A j \in 1..Len(t[k][i]) :
                    t[k][i][j] = RAdd(RAdd(b[k][i][j], cx[k][i][j]), cy[k][i][j])

\* a finished run whose combined yy field has a non-zero Cerruti-y part
C1_Witness ==
    /\ pc = "done"
    /\ ~AllZero3(c_db[CName("yy", "y")])
    /\ ~AllZero3(t_db[TName("yy")])

\* C2: from the creation of a component's Cerruti arrays up to and including
\* the combined sum, the stored Boussinesq array and the Cerruti-x and
\* Cerruti-y arrays of that component have the same spatial shape and depth
\* length, so the sum is never formed by broadcasting; no run stops with a
\* shape error in the Cerruti stage.
C2_SameShape ==
    /\ \A c \in DOMAIN cerr_x :
          /\ c \in DOMAIN cerr_y
          /\ Shape3(cerr_x[c]) = Shape3(b_db[BName(c)])
          /\ Shape3(cerr_y[c]) = Shape3(b_db[BName(c)])
    /\ \A c \in DOMAIN total_dict : Shape3(total_dict[c]) = Shape3(b_db[BName(c)])
    /\ \A c \in Comps : TName(c) \in DOMAIN t_db =>
          Shape3(t_db[TName(c)]) = Shape3(b_db[BName(c)])
    /\ (pc = "error" /\ c_x # <<>>) => FALSE

\* the sum is about to be formed over arrays smaller than the DEM
C2_Witness ==
    /\ pc = "c_sum"
    /\ Shape3(cerr_x[comp])[1] < Len(dem)
    /\ Shape3(cerr_x[comp])[1] >= 2

\* C3: the Boussinesq arrays have the valid-mode shape DEM - kernel + 1 on each
\* axis (and z_len depths); the Cerruti arrays have the same-mode shape, that of
\* the load Fh_x / Fh_y they convolve.
C3_OutputShapes ==
    /\ b_out_size # <<>> =>
          /\ b_out_size = <<Len(dem) - kernel_len + 1, Len(dem[1]) - kernel_len + 1, z_len>>
          /\ Shape3(b_stress) = b_out_size
          /\ \A c \in DOMAIN b_dict : Shape3(b_dict[c]) = b_out_size
          /\ \A n \in DOMAIN b_db : Shape3(b_db[n]) = b_out_size
    /\ c_x # <<>> =>
          /\ Shape3(c_x) = <<Len(Fh_x), Len(Fh_x[1]), z_len>>
          /\ Shape3(c_y) = <<Len(Fh_y), Len(Fh_y[1]), z_len>>
          /\ \A c \in DOMAIN cerr_x : Shape3(cerr_x[c]) = Shape3(c_x)
          /\ \A c \in DOMAIN cerr_y : Shape3(cerr_y[c]) = Shape3(c_y)
          /\ \A n \in DOMAIN c_db : Shape3(c_db[n]) = Shape3(c_x)

\* both kinds of array are allocated and the valid-mode shape is a real shrink
C3_Witness ==
    /\ pc = "c_conv"
    /\ kernel_len > 1
    /\ b_out_size[1] # b_out_size[2]
    /\ b_out_size[1] < Len(dem)
    /\ Shape3(cerr_x[comp]) = b_out_size

\* the statements of the Cerruti stage
CerrutiPcs == {"c_copy", "c_conv", "c_store_y", "c_sum", "t_store", "c_del"}

\* C4: while the run is in the Cerruti loop (and once it is done) all six
\* Boussinesq datasets are stored with every depth; when a component's first
\* Cerruti convolution is about to start, each stored Boussinesq dataset holds
\* the scaled convolution of every depth; and the loading functions in use are
\* built from depth index 0 (the smallest depth) of the stored xx, xy and yy
\* datasets.
C4_BoussinesqFirst ==
    /\ (pc \in CerrutiPcs \cup {"done"} \/ DOMAIN cerr_x # {} \/ DOMAIN c_db # {}) =>
          \A c \in Comps : /\ BName(c) \in DOMAIN b_db
                           /\ Len(b_db[BName(c)]) = z_len
    /\ (pc = "c_conv" /\ zi = 0) =>
          \A c \in Comps : b_db[BName(c)] = BExpected(c)
    /\ (pc = "c_conv" /\ zi = 0) =>
          LET bxx == Scale2(b_db[BName("xx")][1], Pa)
              bxy == Scale2(b_db[BName("xy")][1], Pa)
              byy == Scale2(b_db[BName("yy")][1], Pa)
              tc  == centered(Load0, Shape2(bxx))
              dy  == gradient(tc, Num(study_res))[1]
              dx  == gradient(tc, Num(study_res))[2]
          IN  /\ \A k \in 1..z_len : z_vec[1] <= z_vec[k]
              /\ Fh_x = Add2(Mul2(Scale2(tc, Fv), dx), Add2(Mul2(bxx, dx), Mul2(bxy, dy)))
              /\ Fh_y = Add2(Mul2(Scale2(tc, Fv), dy), Add2(Mul2(byy, dy), Mul2(bxy, dx)))

\* the first Cerruti convolution has run, on a load that the Boussinesq top
\* slice contributes to
C4_Witness ==
    /\ pc = "c_conv" /\ ci = 1 /\ zi = 1
    /\ ~AllZero2(b_top.xx)
    /\ b_db[BName("xx")][1] # b_db[BName("xx")][z_len]

\* Boussinesq convolutions are still to run
BOutstanding ==
    \/ pc \in {"params", "load", "config", "b_copy"}
    \/ pc = "b_conv" /\ zi < z_len
    \/ pc \in {"b_conv", "b_store", "b_del"} /\ ci < Len(comp_list)

\* Cerruti convolutions are still to run
COutstanding ==
    \/ BOutstanding
    \/ pc \in {"c_top", "c_fh", "c_alloc", "c_copy"}
    \/ pc = "c_conv" /\ zi < z_len
    \/ pc \in CerrutiPcs /\ ci < Len(comp_list)

\* C5 as stated: no dataset of a stage is in storage while convolutions of that
\* stage are still outstanding (combined datasets only after the Cerruti stage).
C5_OnlyAtStageBoundaries ==
    /\ DOMAIN b_db # {} => ~BOutstanding
    /\ DOMAIN c_db # {} => ~COutstanding
    /\ DOMAIN t_db # {} => ~COutstanding

\* C5 amended: a dataset is written only when the convolutions of its own
\* component are done for its stage: b_<comp> holds the scaled Boussinesq result
\* of every depth, c_<comp>_x / c_<comp>_y the Cerruti result of every depth,
\* and the combined <comp> is written after both Cerruti datasets of <comp>.
C5_StoredWhenComponentDone ==
    [][ /\ b_db' # b_db =>
             /\ zi = z_len
             /\ b_db' = DictSet(b_db, BName(comp),
                                [k \in 1..z_len |-> Scale2(BResult(comp, k - 1), MPa)])
        /\ c_db' # c_db =>
             /\ zi = z_len
             /\ \E dir \in {"x", "y"} :
                   c_db' = DictSet(c_db, CName(comp, dir),
                                   [k \in 1..z_len |-> CResult(comp, dir, k - 1)])
        /\ t_db' # t_db =>
             /\ zi = z_len
             /\ BName(comp) \in DOMAIN b_db
             /\ CName(comp, "x") \in DOMAIN c_db
             /\ CName(comp, "y") \in DOMAIN c_db
             /\ DOMAIN t_db' = DOMAIN t_db \cup {TName(comp)} ]_vars

\* the zz Boussinesq dataset is in storage while the xy convolutions run, and
\* the zz combined dataset while the Cerruti convolutions of xy run
C5_Witness ==
    /\ pc = "c_conv" /\ ci = 2 /\ zi < z_len
    /\ TName("zz") \in DOMAIN t_db
    /\ CName("zz", "y") \in DOMAIN c_db
    /\ ~AllZero3(b_db[BName("zz")])

\* C8: for a DEM that is zero everywhere every stored value is zero, and so are
\* the horizontal loading functions.
C8_FlatDemZeroStress ==
    AllZero2(dem) =>
        /\ \A n \in DOMAIN b_db : AllZero3(b_db[n])
        /\ \A n \in DOMAIN c_db : AllZero3(c_db[n])
        /\ \A n \in DOMAIN t_db : AllZero3(t_db[n])
        /\ Fh_x # <<>> => AllZero2(Fh_x)
        /\ Fh_y # <<>> => AllZero2(Fh_y)

\* a finished run on the flat DEM
C8_Witness ==
    /\ pc = "done"
    /\ AllZero2(dem)
    /\ \A c \in Comps : TName(c) \in DOMAIN t_db

\* C10: each working dictionary holds at most one component, the current one;
\* it is empty when the next component's arrays are about to be created and
\* after its loop has ended.
C10_OneComponentHeld ==
    /\ \A d \in {b_dict, cerr_x, cerr_y, total_dict} :
          /\ Cardinality(DOMAIN d) <= 1
          /\ \A c \in DOMAIN d : c = comp
    /\ pc \in {"b_copy", "c_top", "c_fh", "c_alloc"} => DOMAIN b_dict = {}
    /\ pc \in {"c_copy", "done"} =>
          /\ DOMAIN b_dict = {}
          /\ DOMAIN cerr_x = {} /\ DOMAIN cerr_y = {} /\ DOMAIN total_dict = {}

\* the second component's Boussinesq array is about to be created, the first
\* component's dataset being stored
C10_Witness ==
    /\ pc = "b_copy" /\ ci = 2
    /\ BName("zz") \in DOMAIN b_db

\* the depth sequence holds a depth that is not positive
NonPositiveDepth == \E k \in 1..Len(z_vec) : z_vec[k] <= 0

NothingStored == DOMAIN b_db = {} /\ DOMAIN c_db = {} /\ DOMAIN t_db = {}

BPa(c, k, ld) == do_b_convo(c, z_vec[k], Fv, ld, b_conv_mode, kernel_rad, study_res)

\* the Cerruti stress of component c at depth index k for the load fh (in Pa)
\* in direction dir, in Pa
CPa(c, dir, k, fh) == do_c_convo(c, dir, z_vec[k], fh, study_res, kernel_rad, c_conv_mode)

\* C13: units are consistent. Every stored value is the Pa value times 1e-6
\* (MPa); the stresses that enter the loading functions, and the loading
\* functions that enter the Cerruti convolutions, are the Pa values; the
\* combined field is the sum of three MPa values. Each conversion is applied
\* once.
C13_UnitsConsistent ==
    /\ pc = "b_del" =>
          \A ld \in {Load0} : \A k \in 1..z_len :
             b_db[BName(comp)][k] = Scale2(BPa(comp, k, ld), MPa)
    /\ pc \in {"c_fh", "c_alloc", "c_sum", "c_del"} =>
          \A ld \in {Load0} :
          \A bxx \in {BPa("xx", 1, ld)} :
          \A bxy \in {BPa("xy", 1, ld)} :
          \A byy \in {BPa("yy", 1, ld)} :
          \A tc \in {centered(ld, Shape2(bxx))} :
          \A gr \in {gradient(tc, Num(study_res))} :
          \A fx \in {Add2(Mul2(Scale2(tc, Fv), gr[2]),
                          Add2(Mul2(bxx, gr[2]), Mul2(bxy, gr[1])))} :
          \A fy \in {Add2(Mul2(Scale2(tc, Fv), gr[1]),
                          Add2(Mul2(byy, gr[1]), Mul2(bxy, gr[2])))} :
             /\ pc = "c_fh" =>
                   b_top.xx = bxx /\ b_top.xy = bxy /\ b_top.yy = byy
             /\ pc = "c_alloc" =>
                   Fh_x = fx /\ Fh_y = fy
             /\ pc = "c_sum" =>
                   \A k \in 1..z_len :
                      /\ c_db[CName(comp, "x")][k] = Scale2(CPa(comp, "x", k, fx), MPa)
                      /\ c_db[CName(comp, "y")][k] = Scale2(CPa(comp, "y", k, fy), MPa)
             /\ pc = "c_del" =>
                   \A k \in 1..z_len :
                      \A b \in {Scale2(BPa(comp, k, ld), MPa)} :
                      \A cx \in {Scale2(CPa(comp, "x", k, fx), MPa)} :
                      \A cy \in {Scale2(CPa(comp, "y", k, fy), MPa)} :
                         t_db[TName(comp)][k] = Add2(Add2(b, cx), cy)

\* a combined dataset has been stored whose three parts are all non-zero, and
\* the loading functions were built from non-zero Pa stresses
C13_Witness ==
    /\ pc = "c_del"
    /\ ~AllZero2(b_top.xx)
    /\ ~AllZero3(b_db[BName(comp)])
    /\ ~AllZero3(c_db[CName(comp, "x")])
    /\ ~AllZero3(c_db[CName(comp, "y")])
    /\ ~AllZero3(t_db[TName(comp)])

\* C14: while a component's depth loop runs, the slices up to the loop index
\* hold the convolution results of that component and depth and the slices
\* after it still hold the template (np.empty for Boussinesq, zeros for
\* Cerruti); a slice is written in the pass of its own depth only, and what is
\* stored holds a convolution result in every slice.
C14_SlicesWrittenOnce ==
    /\ pc = "b_conv" =>
          \A ld \in {Load0} : \A k \in 1..z_len :
             b_dict[comp][k] = IF k <= zi THEN BPa(comp, k, ld) ELSE b_stress[k]
    /\ pc = "b_del" =>
          \A ld \in {Load0} :
             b_db[BName(comp)] = [k \in 1..z_len |-> Scale2(BPa(comp, k, ld), MPa)]
    /\ pc = "c_conv" =>
          \A fx \in {Fh_x} : \A fy \in {Fh_y} : \A k \in 1..z_len :
             /\ cerr_x[comp][k] =
                   IF k <= zi THEN Scale2(CPa(comp, "x", k, fx), MPa) ELSE c_x[k]
             /\ cerr_y[comp][k] =
                   IF k <= zi THEN Scale2(CPa(comp, "y", k, fy), MPa) ELSE c_y[k]
    /\ pc = "c_sum" =>
          \A fx \in {Fh_x} : \A fy \in {Fh_y} :
             /\ c_db[CName(comp, "x")] =
                   [k \in 1..z_len |-> Scale2(CPa(comp, "x", k, fx), MPa)]
             /\ c_db[CName(comp, "y")] =
                   [k \in 1..z_len |-> Scale2(CPa(comp, "y", k, fy), MPa)]

\* the xy Boussinesq dataset is stored over two depths: its slices are two
\* different results, and none is the template's content
C14_Witness ==
    /\ pc = "b_del" /\ comp = "xy"
    /\ z_len = 2
    /\ b_db[BName("xy")][1] # b_db[BName("xy")][2]
    /\ b_db[BName("xy")] # b_db[BName("zz")]
    /\ \A k \in 1..z_len : b_db[BName("xy")][k] # Scale2(b_stress[k], MPa)

(* ------------------------------------------------------------------ *)
(* Properties of the failure filter                                     *)
(* ------------------------------------------------------------------ *)

\* the iterations of the prior sample set
Iterations == {r_priors_df[j].index : j \in 1..n_trials}

\* the rows of the sample table that belong to iteration it
RowsOf(it) == {k \in 1..Len(search_df) : search_df[k]["iter"] = it}

\* mean(slip) over the fault points
SlipMean == RDiv(SumSeq([p \in 1..n_points |-> fault_df[p].slip_m]), Num(n_points))

\* tau_mag * slip / mean(slip) of row k
RowMisfit(k) == RDiv(RMul(search_df[k]["tau_mag"], search_df[k]["slip_m"]), SlipMean)

RECURSIVE MisfitSum(_)
MisfitSum(K) ==
    IF K = {} THEN Zero
    ELSE LET k == CHOOSE x \in K : TRUE IN RAdd(RowMisfit(k), MisfitSum(K \ {k}))

RECURSIVE SigSum(_)
SigSum(K) ==
    IF K = {} THEN Zero
    ELSE LET k == CHOOSE x \in K : TRUE IN RAdd(search_df[k]["sig_n_eff"], SigSum(K \ {k}))

\* the mean weighted misfit of iteration it over its fault points
MisfitMean(it) == RDiv(MisfitSum(RowsOf(it)), Num(Cardinality(RowsOf(it))))

\* the friction estimate of iteration it, as the claim states it
FrictionOf(it) ==
    RDiv(MisfitMean(it), RDiv(SigSum(RowsOf(it)), Num(Cardinality(RowsOf(it)))))

\* 0 <= mu <= 1 for a number n/d (inf and nan are not in the range)
InUnitRange(mu) == mu[2] > 0 /\ mu[1] >= 0 /\ mu[1] <= mu[2]

Filtered == fpc \in {"save", "done"}

\* C6: the filter retains exactly the iterations whose friction estimate lies in
\* [0, 1], and the mu kept and emitted for a retained iteration is that estimate.
C6_FilterKeepsValidMu ==
    /\ Filtered =>
          /\ DOMAIN mu_real = {it \in Iterations : InUnitRange(FrictionOf(it))}
          /\ \A it \in DOMAIN mu_real : mu_real[it] = FrictionOf(it)
    /\ fpc = "done" =>
          /\ DOMAIN fail_posteriors = {it \in Iterations : InUnitRange(FrictionOf(it))}
          /\ \A it \in DOMAIN fail_posteriors : fail_posteriors[it].mu = FrictionOf(it)

\* the posteriors are written: one iteration is retained with 0 < mu <= 1 and
\* one is dropped with a mu below 0 or above 1
C6_Witness ==
    /\ fpc = "done"
    /\ \E it \in Iterations :
          it \in DOMAIN fail_posteriors /\ fail_posteriors[it].mu[1] > 0
    /\ \E it \in Iterations :
          it \notin DOMAIN fail_posteriors /\ IsFinite(FrictionOf(it))

\* every sample's effective normal stress is negative
AllSigNegative ==
    \A k \in 1..Len(search_df) :
        "sig_n_eff" \in DOMAIN search_df[k] /\ search_df[k]["sig_n_eff"][1] < 0

\* C7 as stated: an ensemble whose effective normal stresses are all negative
\* leaves zero iterations retained.
C7_NegativeNormalStressDropsAll ==
    (Filtered /\ AllSigNegative) =>
        /\ DOMAIN mu_real = {}
        /\ DOMAIN fail_posteriors = {}

\* C7 amended: in an ensemble whose effective normal stresses are all negative
\* no iteration with a positive mean weighted misfit is retained (an iteration
\* with a mean weighted misfit of zero has mu = 0 and stays).
C7_NegativeNormalStressDropsSheared ==
    (Filtered /\ AllSigNegative) =>
        \A it \in Iterations :
            MisfitMean(it)[1] > 0 =>
                it \notin DOMAIN mu_real /\ it \notin DOMAIN fail_posteriors

\* all normal stresses negative: a sheared iteration is dropped and an
\* unsheared one, with mu = 0, is kept
C7_Witness ==
    /\ fpc = "done"
    /\ AllSigNegative
    /\ \E it \in Iterations : MisfitMean(it)[1] > 0 /\ it \notin DOMAIN fail_posteriors
    /\ \E it \in Iterations :
          it \in DOMAIN fail_posteriors /\ fail_posteriors[it].mu = Zero

\* the fault point and the prior sample of row k
PointOf(k) == fault_df[((k - 1) % n_points) + 1]

PriorOf(k) == r_priors_df[((k - 1) \div n_points) + 1]

\* x times the whole number c
Times(x, c) == Rat(c * x[1], x[2])

\* C9: from the first resolver call on, every row's depth is the fault point's
\* depth times 1000, each of its six stress components the fault point's
\* component times 1e6, and its txx, tyy, txy and phi are the prior values.
C9_UnitsConvertedOnce ==
    fpc \in {"resolve", "misfit", "mu", "filter", "save", "done"} =>
        \A k \in 1..Len(search_df) :
            LET row == search_df[k]
            IN  /\ row["depth"] = Times(PointOf(k).z, 1000)
                /\ row["mxx"] = Times(PointOf(k).xx_stress, 1000000)
                /\ row["myy"] = Times(PointOf(k).yy_stress, 1000000)
                /\ row["mxy"] = Times(PointOf(k).xy_stress, 1000000)
                /\ row["mzz"] = Times(PointOf(k).zz_stress, 1000000)
                /\ row["mxz"] = Times(PointOf(k).xz_stress, 1000000)
                /\ row["myz"] = Times(PointOf(k).yz_stress, 1000000)
                /\ row["txx"] = PriorOf(k).txx
                /\ row["tyy"] = PriorOf(k).tyy
                /\ row["txy"] = PriorOf(k).txy
                /\ row["phi"] = RandomTable(PriorOf(k).index)

\* the resolver has run on a table with a depth of 2 km given as 2000 m and a
\* zz stress of -5 MPa given as -5e6 Pa
C9_Witness ==
    /\ fpc = "misfit"
    /\ Len(search_df) > 2
    /\ fault_df[1].z = Num(2)
    /\ search_df[1]["depth"] = Num(2000)
    /\ search_df[1]["mzz"] = Num(-5000000)
    /\ "tau_s" \in DOMAIN search_df[1]

\* the prior sample whose iteration number is it
PriorSample(it) == r_priors_df[CHOOSE j \in 1..n_trials : r_priors_df[j].index = it]

\* C11: the posterior output has one row per retained iteration and none for a
\* dropped one, with the columns txx, tyy, txy, mu, phi, likelihood; a row's
\* txx, tyy, txy, phi and likelihood are the prior values of its own iteration.
C11_PosteriorRows ==
    fpc = "done" =>
        /\ DOMAIN fail_posteriors = {it \in Iterations : InUnitRange(mu_iter[it])}
        /\ \A it \in DOMAIN fail_posteriors :
              /\ DOMAIN fail_posteriors[it] =
                    {"txx", "tyy", "txy", "mu", "phi", "likelihood"}
              /\ fail_posteriors[it].txx = PriorSample(it).txx
              /\ fail_posteriors[it].tyy = PriorSample(it).tyy
              /\ fail_posteriors[it].txy = PriorSample(it).txy
              /\ fail_posteriors[it].phi = RandomTable(it)
              /\ fail_posteriors[it].likelihood = PriorSample(it).likelihood

\* the output is written with the first prior sample dropped and the second,
\* over two fault points, retained
C11_Witness ==
    /\ fpc = "done"
    /\ n_trials = 2 /\ n_points = 2
    /\ DOMAIN fail_posteriors = {r_priors_df[2].index}

\* the sample table has its prior columns / its fault columns
FrameMade == fpc \in {"fill", "resolve", "misfit", "mu", "filter", "save", "done"}

FaultFilled == fpc \in {"resolve", "misfit", "mu", "filter", "save", "done"}

\* C15: the sample table is the cross product of prior samples and fault
\* points, blocked by iteration. Row k (counted from 0) has the iteration
\* number, txx, tyy, txy and phi of prior sample k div n and pt_index k mod n;
\* its strike, dip and slip are those of fault point k mod n, its depth and
\* stresses that point's in m and Pa; each (iteration, fault point) pair is in
\* exactly one row.
C15_CrossProduct ==
    /\ FrameMade =>
          /\ Len(search_df) = n_trials * n_points
          /\ \A k \in 0..(Len(search_df) - 1) :
                LET row   == search_df[k + 1]
                    prior == r_priors_df[(k \div n_points) + 1]
                IN  /\ row["iter"] = prior.index
                    /\ row["txx"] = prior.txx
                    /\ row["tyy"] = prior.tyy
                    /\ row["txy"] = prior.txy
                    /\ row["phi"] = RandomTable(prior.index)
                    /\ row["pt_index"] = k % n_points
          /\ \A j \in 1..n_trials : \A p \in 0..(n_points - 1) :
                Cardinality({k \in 1..Len(search_df) :
                                /\ search_df[k]["iter"] = r_priors_df[j].index
                                /\ search_df[k]["pt_index"] = p}) = 1
    /\ FaultFilled =>
          \A k \in 0..(Len(search_df) - 1) :
             LET row   == search_df[k + 1]
                 point == fault_df[(k % n_points) + 1]
             IN  /\ row["depth"] = Times(point.z, 1000)
                 /\ row["strike"] = point.strike
                 /\ row["dip"] = point.dip
                 /\ row["slip_m"] = point.slip_m
                 /\ row["mxx"] = Times(point.xx_stress, 1000000)
                 /\ row["myy"] = Times(point.yy_stress, 1000000)
                 /\ row["mxy"] = Times(point.xy_stress, 1000000)
                 /\ row["mzz"] = Times(point.zz_stress, 1000000)
                 /\ row["mxz"] = Times(point.xz_stress, 1000000)
                 /\ row["myz"] = Times(point.yz_stress, 1000000)

\* two prior samples over two fault points give four rows; the third row is
\* the second sample at the first point, the fourth the second point again
C15_Witness ==
    /\ fpc = "resolve"
    /\ n_trials = 2 /\ n_points = 2
    /\ Len(search_df) = 4
    /\ search_df[3]["iter"] = r_priors_df[2].index
    /\ search_df[3]["strike"] = fault_df[1].strike
    /\ search_df[4]["strike"] = fault_df[2].strike
    /\ fault_df[1].strike # fault_df[2].strike

====
